---- MODULE Spec2Model ----
(***************************************************************************)
(* The matrix-addition harness of Lesson_1_matrixAdd/CUDA/exercise         *)
(* (main.cpp): argument handling, allocation of the four host matrices,    *)
(* Init, host add, device add, the small-matrix print, verification and    *)
(* cleanup, as one sequential process whose position is pc.                *)
(*                                                                         *)
(* main.cpp is the only translation unit available; InitializeMatrixSame,  *)
(* cpu_matrix_add, gpu_matrix_add, PrintMatrix, MatrixVerification and the *)
(* constants of pch.h are modelled from the specification's contracts.     *)
(*                                                                         *)
(* Cell values are whole numbers (3.0, 2.0 and their sums are exact in a   *)
(* float); the tolerance is the rational VERIF_TOL_NUM / VERIF_TOL_DEN.    *)
(***************************************************************************)
EXTENDS Integers, Sequences, FiniteSets, TLC

VARIABLES argc, argv, pc, dx, dy, dimSrc, ptr, buf, nfree, dev, dbuf,
          out, exitCode, trace, mismatches, lateAccess

vars == <<argc, argv, pc, dx, dy, dimSrc, ptr, buf, nfree, dev, dbuf,
          out, exitCode, trace, mismatches, lateAccess>>

----------------------------------------------------------------------------
(* Bounds of the model *)

\* argc ranges over 1..MaxArgc (the program name plus up to MaxArgc-1 arguments)
MaxArgc == 5

\* a matrix of at most MaxTracked cells is modelled cell by cell; of a larger
\* one the first MaxTracked-1 cells and the last cell are modelled
MaxTracked == 50

----------------------------------------------------------------------------
(* Constants of the program *)

DEFAULT_DIM == 1024

MAT_A_VAL == 3

MAT_B_VAL == 2

VERIF_TOL_NUM == 1

VERIF_TOL_DEN == 100000

\* the content of a cell malloc returned and nothing has written yet
Indeterminate == -1

Mats == {"h_A", "h_B", "h_C", "h_check"}

DevMats == {"d_A", "d_B", "d_C"}

\* the command-line words the model draws argv from, as character sequences
ArgStrings ==
  { <<"4">>, <<"1">>, <<"7">>, <<"0">>, <<"-", "2">>, <<"x">>,
    <<" ", "+", "3", "k">>, <<"1", "2">> }

\* what a read through the null argv[argc] may leave in dy when it does not trap
GarbageInts == {0, 3}

----------------------------------------------------------------------------
(* atoi, as the C library computes it: leading white space, an optional    *)
(* sign, then decimal digits up to the first character that is none; 0     *)
(* when there is no digit.                                                 *)

Digits == {"0", "1", "2", "3", "4", "5", "6", "7", "8", "9"}

DigitVal(c) ==
  CASE c = "0" -> 0 [] c = "1" -> 1 [] c = "2" -> 2 [] c = "3" -> 3
    [] c = "4" -> 4 [] c = "5" -> 5 [] c = "6" -> 6 [] c = "7" -> 7
    [] c = "8" -> 8 [] c = "9" -> 9

RECURSIVE SkipSpace(_, _)
SkipSpace(s, i) ==
  IF i <= Len(s) /\ s[i] \in {" ", "\t", "\n"} THEN SkipSpace(s, i + 1) ELSE i

RECURSIVE ParseDigits(_, _, _)
ParseDigits(s, i, acc) ==
  IF i <= Len(s) /\ s[i] \in Digits
  THEN ParseDigits(s, i + 1, 10 * acc + DigitVal(s[i]))
  ELSE acc

atoi(s) ==
  LET i == SkipSpace(s, 1)
      signed == i <= Len(s) /\ s[i] \in {"+", "-"}
      neg == signed /\ s[i] = "-"
      v == ParseDigits(s, IF signed THEN i + 1 ELSE i, 0)
  IN  IF neg THEN 0 - v ELSE v

----------------------------------------------------------------------------
(* Sizes *)

\* the element count of each malloc: dx*dy (an int; the model's inputs keep
\* it far inside 32 bits)
AllocElems(x, y) == x * y

\* the cells the nested loops over 0..dy-1 and 0..dx-1 visit
LoopCells(x, y) == IF x > 0 /\ y > 0 THEN x * y ELSE 0

\* the cell indices the model keeps of a buffer of n elements
Tracked(n) ==
  IF n <= MaxTracked THEN 1..n ELSE (1..(MaxTracked - 1)) \cup {n}

----------------------------------------------------------------------------
(* The routines main calls *)

\* fills every cell of the dx*dy matrix with val
InitializeMatrixSame(mat, x, y, val) ==
  [i \in DOMAIN mat |-> IF i <= LoopCells(x, y) THEN val ELSE mat[i]]

\* output[i] = A[i] + B[i] for every cell
cpu_matrix_add(A, B, C, x, y) ==
  [i \in DOMAIN C |-> IF i <= LoopCells(x, y) THEN A[i] + B[i] ELSE C[i]]

\* the kernel: one thread per cell, threads outside dx*dy do nothing
gpu_kernel(dA, dB, dC, x, y) ==
  [i \in DOMAIN dC |-> IF i <= LoopCells(x, y) THEN dA[i] + dB[i] ELSE dC[i]]

Abs(v) == IF v < 0 THEN 0 - v ELSE v

\* two cells match when |a - b| <= VERIF_TOL
WithinTol(a, b) == Abs(a - b) * VERIF_TOL_DEN <= VERIF_TOL_NUM

\* the number of (modelled) cells in which the two matrices disagree
MatrixVerification(check, C, x, y) ==
  Cardinality({i \in Tracked(LoopCells(x, y)) : ~WithinTol(check[i], C[i])})

\* what PrintMatrix writes: the cells of the matrix
PrintMatrix(mat, x, y) == [i \in Tracked(LoopCells(x, y)) |-> mat[i]]

----------------------------------------------------------------------------
(* Initial states: every command line of at most MaxArgc - 1 arguments *)

Init ==
  /\ argc \in 1..MaxArgc
  /\ argv \in [1..(argc - 1) -> ArgStrings]
  /\ pc = "args"
  /\ dx = 0
  /\ dy = 0
  /\ dimSrc = "none"
  /\ ptr = [m \in Mats |-> "unset"]
  /\ buf = [m \in Mats |-> <<>>]
  /\ nfree = [m \in Mats |-> 0]
  /\ dev = "idle"
  /\ dbuf = [m \in DevMats |-> <<>>]
  /\ out = <<>>
  /\ exitCode = 0
  /\ trace = <<>>
  /\ mismatches = 0
  /\ lateAccess = {}

----------------------------------------------------------------------------
(* Helpers of the actions *)

\* one line of standard output
Line(tag) == [tag |-> tag, data |-> <<>>]

\* the record of a phase main starts: its name and those of its matrix
\* arguments that hold no allocation when it is called
Call(phase, ms) == [phase |-> phase, unallocated |-> {m \in ms : ptr[m] # "live"}]

\* a phase that visits at least one cell of a matrix that is not allocated
\* dereferences a null pointer
Faults(ms) == LoopCells(dx, dy) > 0 /\ \E m \in ms : ptr[m] # "live"

\* the matrices among ms that have already been released
Late(ms) == {m \in ms : ptr[m] = "freed"}

\* the exit status the parent sees of main's return value
ExitStatus(r) == r % 256

\* the status of a process killed by SIGSEGV, as a shell reports it
SegvStatus == 128 + 11

\* line 17: the branch that reads the dimensions from argv
TakesArgs(n) == n > 1 /\ n < 4

\* line 20 with the bound off by one: four words pass as a valid command line
TooManyArgs_OffByOne(n) == n > 4

\* line 20: the branch that prints the usage message
TooManyArgs(n) == n >= 4

\* line 60 with || for &&
SmallMatrix_Either(x, y) == x <= 6 \/ y <= 6

\* line 60: the matrices are small enough to print
SmallMatrix(x, y) == x <= 6 /\ y <= 6

\* atoi(argv[k]). argv[argc] is the null pointer, and atoi of it is undefined:
\* the read traps, or yields whatever the read finds.
ArgOutcomes(k) ==
  IF k < argc
  THEN {[trap |-> FALSE, val |-> atoi(argv[k])]}
  ELSE {[trap |-> TRUE, val |-> 0]}
         \cup {[trap |-> FALSE, val |-> g] : g \in GarbageInts}

\* whether malloc (or cudaMalloc) of n elements may succeed: a negative int
\* count converts to a size_t beyond any object size and always fails; any
\* other request may succeed or fail
MallocOutcomes(n) == IF n < 0 THEN {FALSE} ELSE BOOLEAN

\* a fresh buffer of n elements
Fresh(n) == [i \in Tracked(n) |-> Indeterminate]

\* free(p): releases a live allocation; free of the null pointer does nothing
Free(p) == IF p = "live" THEN "freed" ELSE p

----------------------------------------------------------------------------
(* main, lines 17-27: resolve dx and dy *)

ParseArgs ==
  /\ pc = "args"
  /\ IF TakesArgs(argc)
     THEN \E a \in ArgOutcomes(1), b \in ArgOutcomes(2) :
            /\ dimSrc' = "args"
            /\ out' = out
            /\ IF a.trap
               THEN /\ pc' = "signaled"
                    /\ exitCode' = SegvStatus
                    /\ UNCHANGED <<dx, dy>>
               ELSE IF b.trap
               THEN /\ pc' = "signaled"
                    /\ exitCode' = SegvStatus
                    /\ dx' = a.val
                    /\ dy' = dy
               ELSE /\ pc' = "alloc"
                    /\ exitCode' = exitCode
                    /\ dx' = a.val
                    /\ dy' = b.val
     ELSE IF TooManyArgs(argc)
     THEN /\ out' = Append(out, Line("usage"))
          /\ pc' = "exited"
          /\ exitCode' = ExitStatus(0 - 1)
          /\ UNCHANGED <<dx, dy, dimSrc>>
     ELSE /\ dx' = DEFAULT_DIM
          /\ dy' = DEFAULT_DIM
          /\ dimSrc' = "default"
          /\ pc' = "alloc"
          /\ UNCHANGED <<out, exitCode>>
  /\ UNCHANGED <<argc, argv, ptr, buf, nfree, dev, dbuf, trace, mismatches,
                 lateAccess>>

(* main, lines 32-35: the four mallocs; no result is tested *)
Alloc ==
  /\ pc = "alloc"
  /\ \E ok \in [Mats -> BOOLEAN] :
       /\ \A m \in Mats : ok[m] \in MallocOutcomes(AllocElems(dx, dy))
       /\ ptr' = [m \in Mats |-> IF ok[m] THEN "live" ELSE "null"]
       /\ buf' = [m \in Mats |->
                    IF ok[m] THEN Fresh(AllocElems(dx, dy)) ELSE <<>>]
  /\ trace' = Append(trace, [phase |-> "Alloc", unallocated |-> {}])
  /\ pc' = "initA"
  /\ UNCHANGED <<argc, argv, dx, dy, dimSrc, nfree, dev, dbuf, out, exitCode,
                 mismatches, lateAccess>>

(* main, line 38 *)
InitA ==
  /\ pc = "initA"
  /\ trace' = Append(trace, Call("InitA", {"h_A"}))
  /\ lateAccess' = lateAccess \cup Late({"h_A"})
  /\ IF Faults({"h_A"})
     THEN /\ pc' = "signaled"
          /\ exitCode' = SegvStatus
          /\ buf' = buf
     ELSE /\ buf' = [buf EXCEPT !["h_A"] =
                       InitializeMatrixSame(@, dx, dy, MAT_A_VAL)]
          /\ pc' = "initB"
          /\ exitCode' = exitCode
  /\ UNCHANGED <<argc, argv, dx, dy, dimSrc, ptr, nfree, dev, dbuf, out,
                 mismatches>>

(* main, lines 39-43 *)
InitB ==
  /\ pc = "initB"
  /\ trace' = Append(trace, Call("InitB", {"h_B"}))
  /\ lateAccess' = lateAccess \cup Late({"h_B"})
  /\ IF Faults({"h_B"})
     THEN /\ pc' = "signaled"
          /\ exitCode' = SegvStatus
          /\ UNCHANGED <<buf, out>>
     ELSE /\ buf' = [buf EXCEPT !["h_B"] =
                       InitializeMatrixSame(@, dx, dy, MAT_B_VAL)]
          /\ out' = Append(out, Line("init_time"))
          /\ pc' = "hostAdd"
          /\ exitCode' = exitCode
  /\ UNCHANGED <<argc, argv, dx, dy, dimSrc, ptr, nfree, dev, dbuf,
                 mismatches>>

(* lines 46-50 with h_C passed as the output of cpu_matrix_add *)
HostAdd_IntoC ==
  /\ pc = "hostAdd"
  /\ trace' = Append(trace, Call("HostAdd", {"h_A", "h_B", "h_C"}))
  /\ lateAccess' = lateAccess \cup Late({"h_A", "h_B", "h_C"})
  /\ IF Faults({"h_A", "h_B", "h_C"})
     THEN /\ pc' = "signaled"
          /\ exitCode' = SegvStatus
          /\ UNCHANGED <<buf, out>>
     ELSE /\ buf' = [buf EXCEPT !["h_C"] =
                       cpu_matrix_add(buf["h_A"], buf["h_B"], @, dx, dy)]
          /\ out' = Append(out, Line("cpu_time"))
          /\ pc' = "deviceAdd"
          /\ exitCode' = exitCode
  /\ UNCHANGED <<argc, argv, dx, dy, dimSrc, ptr, nfree, dev, dbuf,
                 mismatches>>

(* main, lines 46-50 *)
HostAdd ==
  /\ pc = "hostAdd"
  /\ trace' = Append(trace, Call("HostAdd", {"h_A", "h_B", "h_check"}))
  /\ lateAccess' = lateAccess \cup Late({"h_A", "h_B", "h_check"})
  /\ IF Faults({"h_A", "h_B", "h_check"})
     THEN /\ pc' = "signaled"
          /\ exitCode' = SegvStatus
          /\ UNCHANGED <<buf, out>>
     ELSE /\ buf' = [buf EXCEPT !["h_check"] =
                       cpu_matrix_add(buf["h_A"], buf["h_B"], @, dx, dy)]
          /\ out' = Append(out, Line("cpu_time"))
          /\ pc' = "deviceAdd"
          /\ exitCode' = exitCode
  /\ UNCHANGED <<argc, argv, dx, dy, dimSrc, ptr, nfree, dev, dbuf,
                 mismatches>>

(* main, line 54: the call of gpu_matrix_add, which returns only when the  *)
(* whole round trip is done. Its three stages follow the contract of the  *)
(* device add: allocate the device buffers and copy A and B in; run the   *)
(* kernel; copy the result back and release the device buffers. A failed  *)
(* allocation or copy on the device path ends the run with a diagnostic.  *)
DeviceCopyIn ==
  /\ pc = "deviceAdd"
  /\ dev = "idle"
  /\ trace' = Append(trace, Call("DeviceAdd", {"h_A", "h_B", "h_C"}))
  /\ lateAccess' = lateAccess \cup Late({"h_A", "h_B", "h_C"})
  /\ \E devOK \in MallocOutcomes(AllocElems(dx, dy)) :
       IF devOK /\ ~Faults({"h_A", "h_B"})
       THEN /\ dbuf' = [m \in DevMats |->
                          CASE m = "d_A" -> buf["h_A"]
                            [] m = "d_B" -> buf["h_B"]
                            [] m = "d_C" -> Fresh(AllocElems(dx, dy))]
            /\ dev' = "copied"
            /\ UNCHANGED <<pc, out, exitCode>>
       ELSE /\ out' = Append(out, Line("device_error"))
            /\ pc' = "aborted"
            /\ exitCode' = 1
            /\ UNCHANGED <<dev, dbuf>>
  /\ UNCHANGED <<argc, argv, dx, dy, dimSrc, ptr, buf, nfree, mismatches>>

DeviceKernel ==
  /\ pc = "deviceAdd"
  /\ dev = "copied"
  /\ dbuf' = [dbuf EXCEPT !["d_C"] =
                gpu_kernel(dbuf["d_A"], dbuf["d_B"], @, dx, dy)]
  /\ dev' = "computed"
  /\ UNCHANGED <<argc, argv, pc, dx, dy, dimSrc, ptr, buf, nfree, out,
                 exitCode, trace, mismatches, lateAccess>>

(* the copy back, the release of the device buffers and, in main, lines   *)
(* 55-57                                                                  *)
DeviceCopyBack ==
  /\ pc = "deviceAdd"
  /\ dev = "computed"
  /\ IF Faults({"h_C"})
     THEN /\ out' = Append(out, Line("device_error"))
          /\ pc' = "aborted"
          /\ exitCode' = 1
          /\ UNCHANGED <<buf, dev, dbuf, trace>>
     ELSE /\ buf' = [buf EXCEPT !["h_C"] =
                       [i \in DOMAIN @ |-> dbuf["d_C"][i]]]
          /\ dbuf' = [m \in DevMats |-> <<>>]
          /\ dev' = "idle"
          /\ out' = Append(out, Line("gpu_time"))
          /\ trace' = Append(trace, [phase |-> "DeviceAddReturn",
                                     unallocated |-> {}])
          /\ pc' = "print"
          /\ exitCode' = exitCode
  /\ UNCHANGED <<argc, argv, dx, dy, dimSrc, ptr, nfree, mismatches,
                 lateAccess>>

(* lines 60-67 with the verification left in the branch that does not print *)
PrintResults_SkipsVerify ==
  /\ pc = "print"
  /\ IF ~SmallMatrix(dx, dy)
     THEN /\ pc' = "verify"
          /\ UNCHANGED <<out, exitCode, trace, lateAccess>>
     ELSE /\ trace' = Append(trace, Call("Print", {"h_check", "h_C"}))
          /\ lateAccess' = lateAccess \cup Late({"h_check", "h_C"})
          /\ IF Faults({"h_check", "h_C"})
             THEN /\ pc' = "signaled"
                  /\ exitCode' = SegvStatus
                  /\ out' = out
             ELSE /\ out' = out \o
                       << Line("cpu_results"),
                          [tag |-> "matrix",
                           data |-> PrintMatrix(buf["h_check"], dx, dy)],
                          Line("gpu_results"),
                          [tag |-> "matrix",
                           data |-> PrintMatrix(buf["h_C"], dx, dy)] >>
                  /\ pc' = "cleanup"
                  /\ exitCode' = exitCode
  /\ UNCHANGED <<argc, argv, dx, dy, dimSrc, ptr, buf, nfree, dev, dbuf,
                 mismatches>>

(* main, lines 60-65 *)
PrintResults ==
  /\ pc = "print"
  /\ IF ~SmallMatrix(dx, dy)
     THEN /\ pc' = "verify"
          /\ UNCHANGED <<out, exitCode, trace, lateAccess>>
     ELSE /\ trace' = Append(trace, Call("Print", {"h_check", "h_C"}))
          /\ lateAccess' = lateAccess \cup Late({"h_check", "h_C"})
          /\ IF Faults({"h_check", "h_C"})
             THEN /\ pc' = "signaled"
                  /\ exitCode' = SegvStatus
                  /\ out' = out
             ELSE /\ out' = out \o
                       << Line("cpu_results"),
                          [tag |-> "matrix",
                           data |-> PrintMatrix(buf["h_check"], dx, dy)],
                          Line("gpu_results"),
                          [tag |-> "matrix",
                           data |-> PrintMatrix(buf["h_C"], dx, dy)] >>
                  /\ pc' = "verify"
                  /\ exitCode' = exitCode
  /\ UNCHANGED <<argc, argv, dx, dy, dimSrc, ptr, buf, nfree, dev, dbuf,
                 mismatches>>

(* line 67 with the run given up when the verification counts a mismatch *)
Verify_AbortsOnMismatch ==
  /\ pc = "verify"
  /\ trace' = Append(trace, Call("Verify", {"h_check", "h_C"}))
  /\ lateAccess' = lateAccess \cup Late({"h_check", "h_C"})
  /\ IF Faults({"h_check", "h_C"})
     THEN /\ pc' = "signaled"
          /\ exitCode' = SegvStatus
          /\ UNCHANGED <<mismatches, out>>
     ELSE /\ mismatches' =
               MatrixVerification(buf["h_check"], buf["h_C"], dx, dy)
          /\ out' = Append(out, Line(IF mismatches' = 0
                                     THEN "verify_pass" ELSE "verify_fail"))
          /\ pc' = IF mismatches' = 0 THEN "cleanup" ELSE "exited"
          /\ exitCode' = IF mismatches' = 0 THEN exitCode ELSE 1
  /\ UNCHANGED <<argc, argv, dx, dy, dimSrc, ptr, buf, nfree, dev, dbuf>>

(* main, line 67 *)
Verify ==
  /\ pc = "verify"
  /\ trace' = Append(trace, Call("Verify", {"h_check", "h_C"}))
  /\ lateAccess' = lateAccess \cup Late({"h_check", "h_C"})
  /\ IF Faults({"h_check", "h_C"})
     THEN /\ pc' = "signaled"
          /\ exitCode' = SegvStatus
          /\ UNCHANGED <<mismatches, out>>
     ELSE /\ mismatches' =
               MatrixVerification(buf["h_check"], buf["h_C"], dx, dy)
          /\ out' = Append(out, Line(IF mismatches' = 0
                                     THEN "verify_pass" ELSE "verify_fail"))
          /\ pc' = "cleanup"
          /\ exitCode' = exitCode
  /\ UNCHANGED <<argc, argv, dx, dy, dimSrc, ptr, buf, nfree, dev, dbuf>>

(* main, lines 70-74: the four frees and return 0 *)
Cleanup ==
  /\ pc = "cleanup"
  /\ ptr' = [m \in Mats |-> Free(ptr[m])]
  /\ nfree' = [m \in Mats |-> IF ptr[m] \in {"live", "freed"}
                              THEN nfree[m] + 1 ELSE nfree[m]]
  /\ trace' = Append(trace, [phase |-> "Release", unallocated |-> {}])
  /\ pc' = "exited"
  /\ exitCode' = ExitStatus(0)
  /\ UNCHANGED <<argc, argv, dx, dy, dimSrc, buf, dev, dbuf, out, mismatches,
                 lateAccess>>

Next ==
  \/ ParseArgs
  \/ Alloc
  \/ InitA
  \/ InitB
  \/ HostAdd
  \/ DeviceCopyIn
  \/ DeviceKernel
  \/ DeviceCopyBack
  \/ PrintResults
  \/ Verify
  \/ Cleanup

Spec == Init /\ [][Next]_vars

----------------------------------------------------------------------------
(* The harness around a kernel that is not yet right: the exercise leaves  *)
(* the kernel to be written, and the harness exists to report a device     *)
(* result that disagrees with the host's. The kernel here may leave d_C    *)
(* untouched, write a wrong sum to the last cell, or be correct.           *)

KernelResults(dA, dB, dC, x, y) ==
  LET right == gpu_kernel(dA, dB, dC, x, y)
  IN  { right, dC,
        [i \in DOMAIN dC |->
           IF i = LoopCells(x, y) THEN right[i] + 1 ELSE right[i]] }

DeviceKernelUnfinished ==
  /\ pc = "deviceAdd"
  /\ dev = "copied"
  /\ \E r \in KernelResults(dbuf["d_A"], dbuf["d_B"], dbuf["d_C"], dx, dy) :
       dbuf' = [dbuf EXCEPT !["d_C"] = r]
  /\ dev' = "computed"
  /\ UNCHANGED <<argc, argv, pc, dx, dy, dimSrc, ptr, buf, nfree, out,
                 exitCode, trace, mismatches, lateAccess>>

NextExercise ==
  \/ ParseArgs
  \/ Alloc
  \/ InitA
  \/ InitB
  \/ HostAdd
  \/ DeviceCopyIn
  \/ DeviceKernelUnfinished
  \/ DeviceCopyBack
  \/ PrintResults
  \/ Verify
  \/ Cleanup

SpecExercise == Init /\ [][NextExercise]_vars

----------------------------------------------------------------------------
(* Properties *)

\* the run has returned from main after the cleanup (not by the usage exit)
Finished == pc = "exited" /\ dimSrc # "none"

\* the run has got as far as the mallocs
ReachedAlloc == pc = "alloc" \/ trace # <<>>

ValidDims == dimSrc # "none" /\ dx > 0 /\ dy > 0

Phases == {trace[i].phase : i \in 1..Len(trace)}

IsDump(l) == l.tag \in {"cpu_results", "gpu_results", "matrix"}

\* C1: dx and dy are taken from the command line exactly when two arguments
\* are given, are both DEFAULT_DIM when none is given, and with any other
\* number of arguments (one included) the run prints the usage message and
\* exits non-zero without having read a dimension.
C1_DimensionResolution ==
  pc # "args" =>
    /\ (argc = 3) =>
         (dimSrc = "args" /\ dx = atoi(argv[1]) /\ dy = atoi(argv[2]))
    /\ (argc = 1) =>
         (dimSrc = "default" /\ dx = DEFAULT_DIM /\ dy = DEFAULT_DIM)
    /\ (argc \notin {1, 3}) =>
         (/\ dimSrc = "none"
          /\ pc = "exited"
          /\ exitCode # 0
          /\ out = <<Line("usage")>>)

\* C2: with three or more arguments the run is either not started or has
\* exited non-zero after the usage message, and in every state of it no
\* matrix is allocated and no phase has been started.
C2_UsageErrorPath ==
  (argc >= 4) =>
    /\ pc \in {"args", "exited"}
    /\ (pc = "exited") => (exitCode # 0 /\ out = <<Line("usage")>>)
    /\ \A m \in Mats : ptr[m] = "unset" /\ buf[m] = <<>> /\ nfree[m] = 0
    /\ trace = <<>>
    /\ dev = "idle"

C2_Witness ==
  argc = 4 /\ pc = "exited" /\ exitCode = 255 /\ out = <<Line("usage")>>

\* C3: for dx, dy > 0, from the moment Verify is due every cell of h_check
\* and of h_C is MAT_A_VAL + MAT_B_VAL (so the two agree in every cell), and
\* once Verify has run it has counted no mismatch and reported a pass.
C3_SumInEveryCell ==
  (ValidDims /\ (pc \in {"verify", "cleanup"} \/ Finished)) =>
    /\ DOMAIN buf["h_check"] = Tracked(dx * dy)
    /\ DOMAIN buf["h_C"] = Tracked(dx * dy)
    /\ \A i \in Tracked(dx * dy) :
         /\ buf["h_check"][i] = MAT_A_VAL + MAT_B_VAL
         /\ buf["h_C"][i] = MAT_A_VAL + MAT_B_VAL
    /\ (pc # "verify") =>
         (mismatches = 0 /\ out[Len(out)] = Line("verify_pass"))

C3_Witness ==
  /\ pc = "cleanup"
  /\ dx = 4
  /\ dy = 4
  /\ \A i \in 1..16 : buf["h_check"][i] = 5 /\ buf["h_C"][i] = 5
  /\ mismatches = 0
  /\ Len(SelectSeq(out, IsDump)) = 4

\* C4: the step taken when Verify is due always leads to the cleanup,
\* whatever Verify counted, and the cleanup step releases every allocated
\* matrix once and returns 0: a mismatch neither aborts the run nor skips
\* the cleanup.
C4_MismatchNonFatal ==
  [][ /\ (pc = "verify") => (pc' = "cleanup")
      /\ (pc = "cleanup") =>
           /\ pc' = "exited"
           /\ exitCode' = 0
           /\ \A m \in Mats :
                /\ ptr'[m] # "live"
                /\ (ptr[m] = "live") => (ptr'[m] = "freed" /\ nfree'[m] = 1)
    ]_vars

C4_Witness ==
  /\ pc = "exited"
  /\ exitCode = 0
  /\ mismatches > 0
  /\ out[Len(out)] = Line("verify_fail")
  /\ \A m \in Mats : ptr[m] = "freed" /\ nfree[m] = 1

\* C5: when a malloc of a matrix of dx*dy > 0 elements has failed, no phase
\* is started after the allocation (none runs on a matrix that holds no
\* allocation), and the run can only have ended as an abort with a diagnostic.
C5_AllocFailureFatal ==
  (/\ ValidDims
   /\ trace # <<>>
   /\ \E m \in Mats : ptr[m] = "null") =>
    /\ Phases = {"Alloc"}
    /\ \A i \in 1..Len(trace) : trace[i].unallocated = {}
    /\ (pc \in {"exited", "signaled", "aborted"}) =>
         (pc = "aborted" /\ out # <<>>)

\* C6: once the print step is passed, standard output holds the dump of
\* h_check followed by the dump of h_C exactly when dx <= 6 and dy <= 6, and
\* no dump otherwise; the print step always hands over to Verify, and a run
\* that reaches the cleanup has run Verify.
C6_PrintIffSmall ==
  /\ (pc \in {"verify", "cleanup"} \/ Finished) =>
       (SelectSeq(out, IsDump) =
          IF dx <= 6 /\ dy <= 6
          THEN << Line("cpu_results"),
                  [tag |-> "matrix", data |-> PrintMatrix(buf["h_check"], dx, dy)],
                  Line("gpu_results"),
                  [tag |-> "matrix", data |-> PrintMatrix(buf["h_C"], dx, dy)] >>
          ELSE <<>>)
  /\ (pc \notin {"verify", "cleanup"} /\ ~Finished) =>
       (SelectSeq(out, IsDump) = <<>>)
  /\ (trace # <<>> /\ trace[Len(trace)].phase = "Print") => (pc = "verify")
  /\ (trace # <<>> /\ trace[Len(trace)].phase = "DeviceAddReturn") =>
       (pc \in {"print", "verify"})
  /\ (pc = "cleanup" \/ Finished) => ("Verify" \in Phases)

C6_Witness ==
  /\ pc = "cleanup"
  /\ dx = 4
  /\ dy = 7
  /\ SelectSeq(out, IsDump) = <<>>
  /\ "Verify" \in Phases

\* C7: in every run that reaches the mallocs, dx > 0 and dy > 0 (stated for
\* the command lines with no or two arguments; the second dimension of the
\* one-argument command line is undefined).
C7_PositiveDims == (ReachedAlloc /\ argc # 2) => (dx > 0 /\ dy > 0)

\* the phases of an accepted run, in the order of main
PhaseOrder(small) ==
  <<"Alloc", "InitA", "InitB", "HostAdd", "DeviceAdd", "DeviceAddReturn">>
    \o (IF small THEN <<"Print">> ELSE <<>>)
    \o <<"Verify", "Release">>

\* C8: the phases started so far are an initial part of the fixed order
\* allocate, Init(A), Init(B), HostAdd, DeviceAdd, (Print,) Verify, release;
\* the device is busy only inside the DeviceAdd call, and Print and Verify
\* start only after DeviceAdd has returned with h_C holding the device result.
C8_FixedPhaseOrder ==
  LET order == PhaseOrder(SmallMatrix(dx, dy))
  IN  /\ Len(trace) <= Len(order)
      /\ \A i \in 1..Len(trace) : trace[i].phase = order[i]
      /\ (dev # "idle") =>
           (pc \in {"deviceAdd", "aborted"}
              /\ trace[Len(trace)].phase = "DeviceAdd")
      /\ (Phases \cap {"Print", "Verify"} # {}) =>
           ("DeviceAddReturn" \in Phases /\ dev = "idle")
      /\ (pc = "exited" /\ dimSrc # "none") => (Len(trace) = Len(order))

C8_Witness ==
  /\ pc = "exited"
  /\ dx = 4
  /\ dy = 4
  /\ [i \in 1..Len(trace) |-> trace[i].phase] =
       <<"Alloc", "InitA", "InitB", "HostAdd", "DeviceAdd", "DeviceAddReturn",
         "Print", "Verify", "Release">>

\* C9: for dx, dy > 0: once any phase after the allocation has started, all
\* four matrices hold an allocation of dx*dy elements; a matrix is read only
\* after its producer has written all of it (A and B by Init before HostAdd
\* and DeviceAdd, h_check by HostAdd and h_C by DeviceAdd before Print and
\* Verify); and HostAdd and DeviceAdd leave A and B as Init filled them.
C9_AllocatedThenWrittenThenRead ==
  ValidDims =>
    /\ (Phases \ {"Alloc"} # {}) =>
         \A m \in Mats :
           ptr[m] \in {"live", "freed"} /\ DOMAIN buf[m] = Tracked(dx * dy)
    /\ (Phases \cap {"HostAdd", "DeviceAdd"} # {}) =>
         \A i \in Tracked(dx * dy) :
           buf["h_A"][i] = MAT_A_VAL /\ buf["h_B"][i] = MAT_B_VAL
    /\ (Phases \cap {"Print", "Verify"} # {}) =>
         \A i \in Tracked(dx * dy) :
           /\ buf["h_check"][i] # Indeterminate
           /\ buf["h_C"][i] # Indeterminate

\* C10: when the program has ended, by whatever path, no matrix is still
\* allocated and each one that was allocated has been freed exactly once; no
\* matrix is accessed after its release; none is freed that was not
\* allocated; the usage-error exit allocates and releases nothing.
C10_ReleasedExactlyOnce ==
  /\ (pc \in {"exited", "signaled", "aborted"}) =>
       \A m \in Mats : ptr[m] # "live" /\ (ptr[m] = "freed" => nfree[m] = 1)
  /\ lateAccess = {}
  /\ \A m \in Mats : nfree[m] <= 1 /\ (nfree[m] = 1 => ptr[m] = "freed")
  /\ (argc >= 4) => (\A m \in Mats : ptr[m] = "unset" /\ nfree[m] = 0)

====
